---- MODULE Spec2Model ----
(***************************************************************************)
(* GrpcStreamingReader (grpc_streaming_reader.cc): an observer of one      *)
(* GrpcStream that sends a single request when the stream opens,           *)
(* accumulates every response and resolves one callback when the stream    *)
(* finishes.                                                               *)
(*                                                                         *)
(* The specifications share the handlers below.                            *)
(*   Spec       - every public method and observer hook of the reader may  *)
(*                be called at any time, in any order (the class itself    *)
(*                restricts nothing but the HARD_ASSERT of OnStreamFinish).*)
(*   DriverSpec - the caller starts the reader once and the stream         *)
(*                delivers its events in the order the stream contract     *)
(*                states; LiveSpec adds the fairness of the final event.   *)
(*   ReentrantSpec - OnStreamFinish taken in two steps, the invocation of  *)
(*                the callback and the clearing of callback_, so that the  *)
(*                callback can call back into the reader while it runs.    *)
(***************************************************************************)
EXTENDS Integers, Sequences, FiniteSets, TLC

\* ---------------------------------------------------------------- bounds
MaxReads == 2
MaxCancels == 2
MaxStarts == 2
MaxOnStarts == 2
MaxOnFinishes == 2

\* ---------------------------------------------------------------- values
\* grpc::ByteBuffer payloads: requests, response messages, and the empty
\* buffer a moved-from ByteBuffer may be left as.
Requests == {"Q", "R"}
Messages == {"A", "B"}
EmptyBuffer == ""

\* util::Status values; only ok() is interpreted by the reader.
StatusOk == "OK"
Statuses == {"OK", "CANCELLED", "UNAVAILABLE"}

\* CallbackT values; NoCallback is the empty std::function.
NoCallback == 0
Callbacks == {1, 2}

VARIABLES
  callback_,   \* the registered CallbackT, or NoCallback
  request_,    \* the stored request ByteBuffer
  responses_,  \* std::vector<grpc::ByteBuffer> of accumulated responses
  stream_,     \* what the reader has asked of its GrpcStream
  results,     \* every invocation of a callback: who was called, with what
  aborted,     \* TRUE once HARD_ASSERT has failed (the process is gone)
  request0,    \* the request given to the constructor
  readLog,     \* the message of every OnStreamRead received, in order
  nOnStart,    \* number of OnStreamStart events received
  nOnFinish,   \* number of OnStreamFinish events received
  op,          \* the operation that produced the current state, its argument
  frames       \* the OnStreamFinish calls whose callback is still running

vars == <<callback_, request_, responses_, stream_, results, aborted,
          request0, readLog, nOnStart, nOnFinish, op, frames>>

\* ------------------------------------------------------------ StatusOr
\* util::StatusOr<std::vector<grpc::ByteBuffer>> built from a vector
\* (callback_(responses_)) or from a non-ok Status (callback_(status)).
StatusOrFromValue(v) == [status |-> StatusOk, hasValue |-> TRUE, value |-> v]

StatusOrFromStatus(s) == [status |-> s, hasValue |-> FALSE, value |-> <<>>]

IsOk(s) == s = StatusOk

\* The state std::move(request_) may leave request_ in: WriteLast takes an
\* rvalue reference, so the buffer is either left as it was or emptied.
MovedFrom(b) == {b, EmptyBuffer}

\* ---------------------------------------------------------- constructor
Init ==
  /\ request0 \in Requests
  /\ request_ = request0
  /\ callback_ = NoCallback
  /\ responses_ = <<>>
  /\ stream_ = [startCalls |-> 0, finishCalls |-> 0, written |-> <<>>]
  /\ results = <<>>
  /\ aborted = FALSE
  /\ readLog = <<>>
  /\ nOnStart = 0
  /\ nOnFinish = 0
  /\ op = [name |-> "GrpcStreamingReader", arg |-> request0]
  /\ frames = <<>>

\* ------------------------------------------------------------- handlers
\* Start that starts the stream but does not store the callback.
Start_DropsCallback(callback) ==
  /\ ~aborted
  /\ stream_.startCalls < MaxStarts
  /\ stream_' = [stream_ EXCEPT !.startCalls = @ + 1]
  /\ UNCHANGED frames
  /\ op' = [name |-> "Start", arg |-> callback]
  /\ UNCHANGED <<callback_, request_, responses_, results, aborted, request0,
                 readLog, nOnStart, nOnFinish>>

\* void GrpcStreamingReader::Start(CallbackT&& callback)
Start(callback) ==
  /\ ~aborted
  /\ stream_.startCalls < MaxStarts
  /\ callback_' = callback
  /\ stream_' = [stream_ EXCEPT !.startCalls = @ + 1]
  /\ UNCHANGED frames
  /\ op' = [name |-> "Start", arg |-> callback]
  /\ UNCHANGED <<request_, responses_, results, aborted, request0, readLog,
                 nOnStart, nOnFinish>>

\* Cancel flushing the request to the stream before finishing it.
Cancel_WritesLast ==
  /\ ~aborted
  /\ stream_.finishCalls < MaxCancels
  /\ stream_' = [stream_ EXCEPT !.finishCalls = @ + 1,
                                !.written = Append(@, request_)]
  /\ UNCHANGED frames
  /\ op' = [name |-> "Cancel", arg |-> stream_.finishCalls + 1]
  /\ UNCHANGED <<callback_, request_, responses_, results, aborted, request0,
                 readLog, nOnStart, nOnFinish>>

\* Cancel resolving the call by itself: it drops the registered callback.
Cancel_ClearsCallback ==
  /\ ~aborted
  /\ stream_.finishCalls < MaxCancels
  /\ stream_' = [stream_ EXCEPT !.finishCalls = @ + 1]
  /\ callback_' = NoCallback
  /\ UNCHANGED frames
  /\ op' = [name |-> "Cancel", arg |-> stream_.finishCalls + 1]
  /\ UNCHANGED <<request_, responses_, results, aborted, request0,
                 readLog, nOnStart, nOnFinish>>

\* Cancel throwing away what has been received so far.
Cancel_DropsResponses ==
  /\ ~aborted
  /\ stream_.finishCalls < MaxCancels
  /\ stream_' = [stream_ EXCEPT !.finishCalls = @ + 1]
  /\ responses_' = <<>>
  /\ UNCHANGED frames
  /\ op' = [name |-> "Cancel", arg |-> stream_.finishCalls + 1]
  /\ UNCHANGED <<callback_, request_, results, aborted, request0,
                 readLog, nOnStart, nOnFinish>>

\* void GrpcStreamingReader::Cancel()
Cancel ==
  /\ ~aborted
  /\ stream_.finishCalls < MaxCancels
  /\ stream_' = [stream_ EXCEPT !.finishCalls = @ + 1]
  /\ UNCHANGED frames
  /\ op' = [name |-> "Cancel", arg |-> stream_.finishCalls + 1]
  /\ UNCHANGED <<callback_, request_, responses_, results, aborted, request0,
                 readLog, nOnStart, nOnFinish>>

\* OnStreamStart writing a buffer that was moved from before the write.
OnStreamStart_SendsEmpty ==
  /\ ~aborted
  /\ nOnStart < MaxOnStarts
  /\ stream_' = [stream_ EXCEPT !.written = Append(@, EmptyBuffer)]
  /\ request_' \in MovedFrom(request_)
  /\ nOnStart' = nOnStart + 1
  /\ UNCHANGED frames
  /\ op' = [name |-> "OnStreamStart", arg |-> nOnStart + 1]
  /\ UNCHANGED <<callback_, responses_, results, aborted, request0, readLog,
                 nOnFinish>>

\* OnStreamStart that never writes the request.
OnStreamStart_SkipsSend ==
  /\ ~aborted
  /\ nOnStart < MaxOnStarts
  /\ nOnStart' = nOnStart + 1
  /\ UNCHANGED frames
  /\ op' = [name |-> "OnStreamStart", arg |-> nOnStart + 1]
  /\ UNCHANGED <<callback_, request_, responses_, stream_, results, aborted,
                 request0, readLog, nOnFinish>>

\* void GrpcStreamingReader::OnStreamStart()
OnStreamStart ==
  /\ ~aborted
  /\ nOnStart < MaxOnStarts
  /\ stream_' = [stream_ EXCEPT !.written = Append(@, request_)]
  /\ request_' \in MovedFrom(request_)
  /\ nOnStart' = nOnStart + 1
  /\ UNCHANGED frames
  /\ op' = [name |-> "OnStreamStart", arg |-> nOnStart + 1]
  /\ UNCHANGED <<callback_, responses_, results, aborted, request0, readLog,
                 nOnFinish>>

\* OnStreamRead handing each message to the callback as it arrives.
OnStreamRead_ResolvesCallback(message) ==
  /\ ~aborted
  /\ Len(readLog) < MaxReads
  /\ responses_' = Append(responses_, message)
  /\ readLog' = Append(readLog, message)
  /\ results' = IF callback_ = NoCallback
                  THEN results
                  ELSE Append(results,
                         [callback |-> callback_,
                          arg |-> StatusOrFromValue(<<message>>)])
  /\ UNCHANGED frames
  /\ op' = [name |-> "OnStreamRead", arg |-> message]
  /\ UNCHANGED <<callback_, request_, stream_, aborted, request0,
                 nOnStart, nOnFinish>>

\* OnStreamRead inserting at the front of the vector.
OnStreamRead_Prepends(message) ==
  /\ ~aborted
  /\ Len(readLog) < MaxReads
  /\ responses_' = <<message>> \o responses_
  /\ readLog' = Append(readLog, message)
  /\ UNCHANGED frames
  /\ op' = [name |-> "OnStreamRead", arg |-> message]
  /\ UNCHANGED <<callback_, request_, stream_, results, aborted, request0,
                 nOnStart, nOnFinish>>

\* void GrpcStreamingReader::OnStreamRead(const grpc::ByteBuffer& message)
OnStreamRead(message) ==
  /\ ~aborted
  /\ Len(readLog) < MaxReads
  /\ responses_' = Append(responses_, message)
  /\ readLog' = Append(readLog, message)
  /\ UNCHANGED frames
  /\ op' = [name |-> "OnStreamRead", arg |-> message]
  /\ UNCHANGED <<callback_, request_, stream_, results, aborted, request0,
                 nOnStart, nOnFinish>>

\* OnStreamFinish without the final callback_ = {}.
OnStreamFinish_KeepsCallback(status) ==
  /\ ~aborted
  /\ nOnFinish < MaxOnFinishes
  /\ nOnFinish' = nOnFinish + 1
  /\ UNCHANGED frames
  /\ op' = [name |-> "OnStreamFinish", arg |-> status]
  /\ IF callback_ = NoCallback
       THEN /\ aborted' = TRUE
            /\ UNCHANGED <<callback_, results>>
       ELSE /\ results' = Append(results,
                 [callback |-> callback_,
                  arg |-> IF IsOk(status)
                            THEN StatusOrFromValue(responses_)
                            ELSE StatusOrFromStatus(status)])
            /\ UNCHANGED callback_
            /\ UNCHANGED aborted
  /\ UNCHANGED <<request_, responses_, stream_, request0, readLog, nOnStart>>

\* OnStreamFinish returning quietly when no callback is registered.
OnStreamFinish_NoAssert(status) ==
  /\ ~aborted
  /\ nOnFinish < MaxOnFinishes
  /\ nOnFinish' = nOnFinish + 1
  /\ UNCHANGED frames
  /\ op' = [name |-> "OnStreamFinish", arg |-> status]
  /\ IF callback_ = NoCallback
       THEN UNCHANGED <<callback_, results, aborted>>
       ELSE /\ results' = Append(results,
                 [callback |-> callback_,
                  arg |-> IF IsOk(status)
                            THEN StatusOrFromValue(responses_)
                            ELSE StatusOrFromStatus(status)])
            /\ callback_' = NoCallback
            /\ UNCHANGED aborted
  /\ UNCHANGED <<request_, responses_, stream_, request0, readLog, nOnStart>>

\* OnStreamFinish passing the responses whatever the status.
OnStreamFinish_ValueOnFailure(status) ==
  /\ ~aborted
  /\ nOnFinish < MaxOnFinishes
  /\ nOnFinish' = nOnFinish + 1
  /\ UNCHANGED frames
  /\ op' = [name |-> "OnStreamFinish", arg |-> status]
  /\ IF callback_ = NoCallback
       THEN /\ aborted' = TRUE
            /\ UNCHANGED <<callback_, results>>
       ELSE /\ results' = Append(results,
                 [callback |-> callback_,
                  arg |-> StatusOrFromValue(responses_)])
            /\ callback_' = NoCallback
            /\ UNCHANGED aborted
  /\ UNCHANGED <<request_, responses_, stream_, request0, readLog, nOnStart>>

\* OnStreamFinish resolving the callback only for an ok status.
OnStreamFinish_IgnoresFailure(status) ==
  /\ ~aborted
  /\ nOnFinish < MaxOnFinishes
  /\ nOnFinish' = nOnFinish + 1
  /\ UNCHANGED frames
  /\ op' = [name |-> "OnStreamFinish", arg |-> status]
  /\ IF callback_ = NoCallback
       THEN /\ aborted' = TRUE
            /\ UNCHANGED <<callback_, results>>
       ELSE IF IsOk(status)
              THEN /\ results' = Append(results,
                        [callback |-> callback_,
                         arg |-> StatusOrFromValue(responses_)])
                   /\ callback_' = NoCallback
                   /\ UNCHANGED aborted
              ELSE UNCHANGED <<callback_, results, aborted>>
  /\ UNCHANGED <<request_, responses_, stream_, request0, readLog, nOnStart>>

\* OnStreamFinish moving the responses into the callback argument.
OnStreamFinish_MovesResponses(status) ==
  /\ ~aborted
  /\ nOnFinish < MaxOnFinishes
  /\ nOnFinish' = nOnFinish + 1
  /\ UNCHANGED frames
  /\ op' = [name |-> "OnStreamFinish", arg |-> status]
  /\ IF callback_ = NoCallback
       THEN /\ aborted' = TRUE
            /\ UNCHANGED <<callback_, results>>
       ELSE /\ results' = Append(results,
                 [callback |-> callback_,
                  arg |-> IF IsOk(status)
                            THEN StatusOrFromValue(responses_)
                            ELSE StatusOrFromStatus(status)])
            /\ callback_' = NoCallback
            /\ UNCHANGED aborted
  /\ responses_' = IF callback_ # NoCallback /\ IsOk(status) THEN <<>> ELSE responses_
  /\ UNCHANGED <<request_, stream_, request0, readLog, nOnStart>>

\* void GrpcStreamingReader::OnStreamFinish(const util::Status& status)
OnStreamFinish(status) ==
  /\ ~aborted
  /\ nOnFinish < MaxOnFinishes
  /\ nOnFinish' = nOnFinish + 1
  /\ UNCHANGED frames
  /\ op' = [name |-> "OnStreamFinish", arg |-> status]
  /\ IF callback_ = NoCallback
       THEN \* HARD_ASSERT(callback_, ...) fails
            /\ aborted' = TRUE
            /\ UNCHANGED <<callback_, results>>
       ELSE /\ results' = Append(results,
                 [callback |-> callback_,
                  arg |-> IF IsOk(status)
                            THEN StatusOrFromValue(responses_)
                            ELSE StatusOrFromStatus(status)])
            /\ callback_' = NoCallback
            /\ UNCHANGED aborted
  /\ UNCHANGED <<request_, responses_, stream_, request0, readLog, nOnStart>>

\* -------------------------------------------------------- specification
Next ==
  \/ \E callback \in Callbacks : Start(callback)
  \/ Cancel
  \/ OnStreamStart
  \/ \E message \in Messages : OnStreamRead(message)
  \/ \E status \in Statuses : OnStreamFinish(status)

Spec == Init /\ [][Next]_vars

\* ------------------------------------------- the reader under its stream
\* The caller of the reader: Start once per instance, Cancel at any time.
CallStart(callback) ==
  /\ stream_.startCalls = 0
  /\ Start(callback)

CallCancel == Cancel

\* The GrpcStream the reader observes: after its Start() it reports the
\* stream open at most once, then messages, and one final status; nothing
\* after the final status.  The final status follows the opening of the
\* stream, or a Finish() request made before it opened (then it is not ok);
\* a Finish() request does not stop events that precede the final status.
StreamOpens ==
  /\ stream_.startCalls > 0
  /\ nOnStart = 0
  /\ nOnFinish = 0
  /\ OnStreamStart

StreamReads(message) ==
  /\ nOnStart > 0
  /\ nOnFinish = 0
  /\ OnStreamRead(message)

StreamFinishes(status) ==
  /\ stream_.startCalls > 0
  /\ nOnStart > 0 \/ (stream_.finishCalls > 0 /\ ~IsOk(status))
  /\ nOnFinish = 0
  /\ OnStreamFinish(status)

DriverNext ==
  \/ \E callback \in Callbacks : CallStart(callback)
  \/ CallCancel
  \/ StreamOpens
  \/ \E message \in Messages : StreamReads(message)
  \/ \E status \in Statuses : StreamFinishes(status)

DriverSpec == Init /\ [][DriverNext]_vars

\* The stream delivers its final status eventually, cancelled or not.
LiveSpec == DriverSpec /\ WF_vars(\E status \in Statuses : StreamFinishes(status))

\* ------------------------------- OnStreamFinish while its callback runs
\* OnStreamFinish up to and including the invocation (lines 62-68): the
\* assertion, then callback_(...), which is now running; callback_ is still
\* set.
OnStreamFinishInvoke(status) ==
  /\ ~aborted
  /\ nOnFinish < MaxOnFinishes
  /\ nOnFinish' = nOnFinish + 1
  /\ op' = [name |-> "OnStreamFinish", arg |-> status]
  /\ IF callback_ = NoCallback
       THEN \* HARD_ASSERT(callback_, ...) fails
            /\ aborted' = TRUE
            /\ UNCHANGED <<results, frames>>
       ELSE /\ results' = Append(results,
                 [callback |-> callback_,
                  arg |-> IF IsOk(status)
                            THEN StatusOrFromValue(responses_)
                            ELSE StatusOrFromStatus(status)])
            /\ frames' = Append(frames, status)
            /\ UNCHANGED aborted
  /\ UNCHANGED <<callback_, request_, responses_, stream_, request0, readLog,
                 nOnStart>>

\* The rest of OnStreamFinish (line 69), once the callback has returned:
\* callback_ = {}.
OnStreamFinishReturn ==
  /\ ~aborted
  /\ frames # <<>>
  /\ callback_' = NoCallback
  /\ frames' = SubSeq(frames, 1, Len(frames) - 1)
  /\ op' = [name |-> "OnStreamFinishReturn", arg |-> frames[Len(frames)]]
  /\ UNCHANGED <<request_, responses_, stream_, results, aborted, request0,
                 readLog, nOnStart, nOnFinish>>

\* The worker queue runs one event at a time: the stream's events and the
\* caller's Start wait while a callback runs.
QueuedStart(callback) ==
  /\ frames = <<>>
  /\ CallStart(callback)

QueuedOpens ==
  /\ frames = <<>>
  /\ StreamOpens

QueuedReads(message) ==
  /\ frames = <<>>
  /\ StreamReads(message)

QueuedFinishes(status) ==
  /\ frames = <<>>
  /\ stream_.startCalls > 0
  /\ nOnStart > 0 \/ (stream_.finishCalls > 0 /\ ~IsOk(status))
  /\ nOnFinish = 0
  /\ OnStreamFinishInvoke(status)

\* The running callback calls back into the reader: OnStreamFinish again,
\* or Cancel.
CallbackReenters(status) ==
  /\ frames # <<>>
  /\ OnStreamFinishInvoke(status)

CallbackReturns == OnStreamFinishReturn

ReentrantNext ==
  \/ \E callback \in Callbacks : QueuedStart(callback)
  \/ CallCancel
  \/ QueuedOpens
  \/ \E message \in Messages : QueuedReads(message)
  \/ \E status \in Statuses : QueuedFinishes(status)
  \/ \E status \in Statuses : CallbackReenters(status)
  \/ CallbackReturns

ReentrantSpec == Init /\ [][ReentrantNext]_vars

\* ------------------------------------------------------------ properties
Last(seq) == seq[Len(seq)]

\* C1: on a reader started once, the callback has been invoked at most once
\* in every state, and exactly once as soon as an on-finish has been
\* delivered, whatever Cancel, on-start and on-read steps came in between.
C1_CallbackExactlyOnce ==
  stream_.startCalls <= 1 =>
    /\ Len(results) <= 1
    /\ (stream_.startCalls = 1 /\ nOnFinish >= 1) => Len(results) = 1

C1_Witness ==
  /\ stream_.startCalls = 1
  /\ nOnFinish = 1
  /\ stream_.finishCalls >= 1
  /\ nOnStart >= 1
  /\ Len(readLog) >= 1
  /\ op.name = "OnStreamFinish"
  /\ Len(results) = 1

\* C2: an on-finish delivered while no callback is registered fails the
\* assertion: the process stops, no callback is invoked and no result is
\* delivered.
C2_FinishWithoutCallbackIsFatal ==
  [][(op'.name = "OnStreamFinish" /\ callback_ = NoCallback)
       => (aborted' /\ results' = results /\ callback_' = NoCallback)]_vars

C2_Witness ==
  /\ aborted
  /\ op.name = "OnStreamFinish"
  /\ nOnFinish = 2
  /\ Len(results) = 1

\* C3: an on-finish with an ok status resolves the registered callback with
\* the value made of exactly the messages on-read has delivered, in the
\* order of their delivery (the empty sequence when there was none).
C3_SuccessCarriesReadsInOrder ==
  [][(/\ op'.name = "OnStreamFinish"
      /\ IsOk(op'.arg)
      /\ callback_ # NoCallback)
       => (/\ Len(results') = Len(results) + 1
           /\ Last(results').callback = callback_
           /\ Last(results').arg = StatusOrFromValue(readLog))]_vars

C3_Witness ==
  /\ op.name = "OnStreamFinish"
  /\ IsOk(op.arg)
  /\ stream_.startCalls = 1
  /\ Len(readLog) = 2
  /\ readLog[1] # readLog[2]
  /\ Len(results) = 1
  /\ results[1].arg.value = <<readLog[1], readLog[2]>>

\* C4: an on-finish with a non-ok status resolves the registered callback
\* with exactly that status and without a value: no accumulated response is
\* part of the result.
C4_FailureCarriesStatusOnly ==
  [][(/\ op'.name = "OnStreamFinish"
      /\ ~IsOk(op'.arg)
      /\ callback_ # NoCallback)
       => (/\ Len(results') = Len(results) + 1
           /\ Last(results').arg.status = op'.arg
           /\ ~Last(results').arg.hasValue
           /\ Last(results').arg.value = <<>>)]_vars

C4_Witness ==
  /\ op.name = "OnStreamFinish"
  /\ op.arg = "UNAVAILABLE"
  /\ Len(responses_) = 2
  /\ Len(results) = 1
  /\ results[1].arg = StatusOrFromStatus("UNAVAILABLE")

\* C5 (as stated): once a started reader has finished, the request has been
\* written to the stream exactly once.
C5_SentExactlyOnce ==
  (stream_.startCalls > 0 /\ nOnFinish > 0) => Len(stream_.written) = 1

\* C5 (amended): the request is written once per on-start and by nothing
\* else, so at most once; every write carries the request given to the
\* constructor.  It is written zero times when the stream finishes before
\* it opens.
C5_SentOncePerOnStart ==
  /\ Len(stream_.written) = nOnStart
  /\ nOnStart <= 1
  /\ \A i \in 1..Len(stream_.written) : stream_.written[i] = request0

C5_Witness ==
  /\ stream_.startCalls = 1
  /\ nOnFinish = 1
  /\ op.name = "OnStreamFinish"
  /\ stream_.written = <<request0>>

\* C6: once Start and Cancel have been called, the first on-finish, when
\* its status is not ok, resolves the callback with that status and no
\* value, however many reads were received.
C6_CancelThenFinishFails ==
  [][(/\ op'.name = "OnStreamFinish"
      /\ ~IsOk(op'.arg)
      /\ stream_.startCalls > 0
      /\ stream_.finishCalls > 0
      /\ nOnFinish = 0)
       => (/\ callback_ # NoCallback
           /\ results' = Append(results, [callback |-> callback_,
                                          arg |-> StatusOrFromStatus(op'.arg)])
           /\ ~aborted')]_vars

C6_Witness ==
  /\ op.name = "OnStreamFinish"
  /\ op.arg = "CANCELLED"
  /\ stream_.startCalls = 1
  /\ stream_.finishCalls = 1
  /\ Len(responses_) = 2
  /\ nOnFinish = 1
  /\ results = <<[callback |-> 1, arg |-> StatusOrFromStatus("CANCELLED")]>>

\* C7: a Cancel, in any state and however often repeated, leaves the
\* callback, the request and the responses as they were, invokes nothing,
\* and asks the stream to finish once.
C7_CancelOnlyAsksTheStream ==
  [][op'.name = "Cancel"
       => (/\ UNCHANGED <<callback_, request_, responses_, results, aborted>>
           /\ stream_' = [stream_ EXCEPT !.finishCalls = @ + 1])]_vars

C7_Witness ==
  /\ op.name = "Cancel"
  /\ stream_.finishCalls = 2
  /\ nOnFinish >= 1
  /\ Len(results) = 1
  /\ Len(responses_) >= 1
  /\ callback_ = NoCallback

\* C8: under a stream that delivers its final status, a Cancel of a
\* registered callback is followed by the callback being resolved, once.
C8_CancelLeadsToResolution ==
  (op.name = "Cancel" /\ callback_ # NoCallback)
    ~> (callback_ = NoCallback /\ Len(results) = 1 /\ ~aborted)

C8_Witness ==
  /\ stream_.finishCalls >= 1
  /\ callback_ = NoCallback
  /\ Len(results) = 1
  /\ op.name = "OnStreamFinish"

C10_ResponsesGivenAway ==
  (op.name = "OnStreamFinish" /\ IsOk(op.arg) /\ ~aborted) => responses_ = <<>>

\* C10 (amended): on-finish with an ok status hands the callback a copy of
\* the responses and the reader keeps its own sequence unchanged.
C10_ResponsesCopied ==
  [][(/\ op'.name = "OnStreamFinish"
      /\ IsOk(op'.arg)
      /\ callback_ # NoCallback)
       => (/\ Last(results').arg.value = responses_
           /\ responses_' = responses_)]_vars

C10_Witness ==
  /\ op.name = "OnStreamFinish"
  /\ IsOk(op.arg)
  /\ ~aborted
  /\ Len(responses_) = 2
  /\ Last(results).arg.value = responses_

\* C11: a Start made while a callback is registered is rejected: it neither
\* replaces the registered callback nor starts the stream a second time.
C11_SecondStartRejected ==
  [][(op'.name = "Start" /\ callback_ # NoCallback)
       => (callback_' = callback_ /\ stream_' = stream_)]_vars

\* C12: on a reader started at most once, the callback slot is occupied
\* exactly when Start has been called and no on-finish has been processed;
\* in every step Start fills the slot, Cancel, on-start and on-read leave it
\* as it is, and on-finish leaves it empty.
C12_SlotSetFromStartToFinish ==
  /\ [](stream_.startCalls <= 1 =>
          (callback_ # NoCallback <=> (stream_.startCalls = 1 /\ nOnFinish = 0)))
  /\ [][/\ op'.name = "Start" => callback_' = op'.arg
        /\ op'.name \in {"Cancel", "OnStreamStart", "OnStreamRead"}
             => callback_' = callback_
        /\ op'.name = "OnStreamFinish" => callback_' = NoCallback]_vars

C12_Witness ==
  /\ callback_ # NoCallback
  /\ stream_.startCalls = 1
  /\ stream_.finishCalls >= 1
  /\ nOnStart >= 1
  /\ Len(readLog) >= 1
  /\ nOnFinish = 0
  /\ op.name # "Start"

\* C13: an on-read appends its message at the end of the responses and does
\* nothing else: no callback is invoked, and the callback slot, the stored
\* request and the stream are left as they were.
C13_ReadOnlyAccumulates ==
  [][op'.name = "OnStreamRead"
       => (/\ responses_' = responses_ \o <<op'.arg>>
           /\ UNCHANGED <<callback_, request_, stream_, results, aborted>>)]_vars

C13_Witness ==
  /\ op.name = "OnStreamRead"
  /\ callback_ # NoCallback
  /\ nOnStart >= 1
  /\ Len(responses_) = 2
  /\ results = <<>>

\* C14: once an on-finish has been processed, no Start, Cancel, on-start or
\* on-read changes the callback slot, the stored request or the responses,
\* or writes to the stream again.
C14_FinishedIsTerminal ==
  [][(/\ nOnFinish >= 1
      /\ op'.name \in {"Start", "Cancel", "OnStreamStart", "OnStreamRead"})
       => (/\ UNCHANGED <<callback_, request_, responses_>>
           /\ stream_'.written = stream_.written)]_vars

\* C15: an on-finish that reaches the reader while the callback is still
\* running fails the assertion and does not invoke the callback again.
C15_ReentrantFinishIsFatal ==
  [][(op'.name = "OnStreamFinish" /\ frames # <<>>)
       => (aborted' /\ results' = results)]_vars

\* C16: when Start and Cancel have been called and no on-start has been
\* delivered, the first on-finish, carrying a non-ok status, resolves the
\* callback once with that status and leaves the slot empty, and nothing has
\* been written to the stream.
C16_CancelBeforeOpenFails ==
  [][(/\ op'.name = "OnStreamFinish"
      /\ ~IsOk(op'.arg)
      /\ stream_.startCalls > 0
      /\ stream_.finishCalls > 0
      /\ nOnStart = 0
      /\ nOnFinish = 0)
       => (/\ Len(results') = 1
           /\ results'[1].callback = callback_
           /\ results'[1].arg.status = op'.arg
           /\ ~results'[1].arg.hasValue
           /\ callback_' = NoCallback
           /\ stream_'.written = <<>>)]_vars

C16_Witness ==
  /\ op.name = "OnStreamFinish"
  /\ op.arg = "CANCELLED"
  /\ stream_.startCalls = 1
  /\ stream_.finishCalls >= 1
  /\ nOnStart = 0
  /\ nOnFinish = 1
  /\ callback_ = NoCallback
  /\ Len(results) = 1
  /\ results[1].arg.status = "CANCELLED"
  /\ stream_.written = <<>>

====
